---- MODULE Spec2Model ----
(***************************************************************************)
(* A model of the tf2-price value types: Currencies (keys, weapons),       *)
(* USDCurrencies (usd) and the helpers they call.  Every operation of the  *)
(* library is a pure function of its operands, or a compound assignment to *)
(* a uniquely owned binding, so a behaviour of the model is: operands are  *)
(* chosen, one operation is applied, its outcome is recorded.              *)
(*                                                                         *)
(* Currency is i64 in the source (i32 under the b32 feature).  The model   *)
(* keeps two's-complement arithmetic of width Bits, so that CurMin, CurMax *)
(* and every overflow are reachable by exhaustive search.  Strings are     *)
(* sequences of characters and an f32 is a binary float of MantBits        *)
(* significant bits, so that formatting and parsing are computed digit by  *)
(* digit.                                                                  *)
(***************************************************************************)
EXTENDS Integers, Sequences, FiniteSets

VARIABLES
    self,       \* the receiver: a Currencies binding [keys, weapons]
    other,      \* the right-hand Currencies operand
    usd,        \* the receiver of the USDCurrencies operations (its usd field)
    usdOther,   \* the right-hand USDCurrencies operand
    op,         \* the operation that was applied, "init" before any
    recv,       \* the receiver as it was when the operation was called
    num,        \* the integer operand (rhs, key price, total or amount)
    rounding,   \* the Rounding policy handed to round
    total,      \* the weapons total handed to from_weapons
    text,       \* the string handed to from_str, a sequence of characters
    list,       \* the collection handed to sort, a sequence of Currencies
    arg,        \* the structured operand: a serialized object, a FloatCurrencies
    res,        \* the outcome of the operation
    out         \* the outcome when it is a sequence: formatted text, sorted list

vars == <<self, other, usd, usdOther, op, recv, num, rounding, total, text, list,
          arg, res, out>>

----------------------------------------------------------------------------
(* Width of Currency and the values derived from it. *)

Bits == 13

Modulus == 2 ^ Bits
CurMax == 2 ^ (Bits - 1) - 1
CurMin == -(2 ^ (Bits - 1))
Half == 2 ^ (Bits - 2)

Currency == CurMin .. CurMax

ONE_WEAPON == 1
ONE_SCRAP == ONE_WEAPON * 2
ONE_REC == ONE_SCRAP * 3
ONE_REF == ONE_REC * 3

refined(n) == n * ONE_REF
scrap(n) == n * ONE_SCRAP

----------------------------------------------------------------------------
(* Primitive integer operations of Currency, as the standard library       *)
(* defines them on a two's-complement integer.                             *)

Abs(x) == IF x < 0 THEN -x ELSE x

\* The value a two's-complement register of width Bits holds for x.
Wrap(x) == ((x - CurMin) % Modulus) + CurMin

overflows(x) == x < CurMin \/ x > CurMax

\* a / b of the language: the quotient truncated toward zero (b # 0).
truncated_div(a, b) ==
    IF (a < 0) = (b < 0) THEN Abs(a) \div Abs(b) ELSE -(Abs(a) \div Abs(b))

\* a % b of the language: the remainder of truncated_div, with the sign of a.
truncated_rem(a, b) == a - b * truncated_div(a, b)

\* `%` aborts on a zero divisor and on MIN % -1, in every build.
rem_panics(a, b) == b = 0 \/ (a = CurMin /\ b = -1)

NoneInt == [some |-> FALSE, val |-> 0]
SomeInt(x) == [some |-> TRUE, val |-> x]

checked_add_int(a, b) == IF overflows(a + b) THEN NoneInt ELSE SomeInt(Wrap(a + b))
checked_sub_int(a, b) == IF overflows(a - b) THEN NoneInt ELSE SomeInt(Wrap(a - b))
checked_mul_int(a, b) == IF overflows(a * b) THEN NoneInt ELSE SomeInt(Wrap(a * b))
checked_div_int(a, b) ==
    IF b = 0 \/ (a = CurMin /\ b = -1) THEN NoneInt ELSE SomeInt(truncated_div(a, b))

saturating_add(a, b) ==
    LET r == checked_add_int(a, b)
    IN  IF r.some THEN r.val ELSE IF b < 0 THEN CurMin ELSE CurMax

saturating_sub(a, b) ==
    LET r == checked_sub_int(a, b)
    IN  IF r.some THEN r.val ELSE IF b > 0 THEN CurMin ELSE CurMax

saturating_mul(a, b) ==
    LET r == checked_mul_int(a, b)
    IN  IF r.some THEN r.val ELSE IF (a < 0) = (b < 0) THEN CurMax ELSE CurMin

\* saturating_div aborts on a zero divisor; MIN / -1 saturates to MAX.
saturating_div_panics(a, b) == b = 0
saturating_div(a, b) ==
    IF a = CurMin /\ b = -1 THEN CurMax ELSE truncated_div(a, b)

----------------------------------------------------------------------------
(* Outcomes. *)

Cur(k, w) == [keys |-> k, weapons |-> w]
Zero == Cur(0, 0)

NoResult == [tag |-> "Init", keys |-> 0, weapons |-> 0, val |-> 0, err |-> ""]
Unit == [tag |-> "Unit", keys |-> 0, weapons |-> 0, val |-> 0, err |-> ""]
Value(c) == [tag |-> "Value", keys |-> c.keys, weapons |-> c.weapons, val |-> 0, err |-> ""]
Some(c) == [tag |-> "Some", keys |-> c.keys, weapons |-> c.weapons, val |-> 0, err |-> ""]
None == [tag |-> "None", keys |-> 0, weapons |-> 0, val |-> 0, err |-> ""]
IntValue(x) == [tag |-> "Value", keys |-> 0, weapons |-> 0, val |-> x, err |-> ""]
IntOption(o) ==
    [tag |-> IF o.some THEN "Some" ELSE "None", keys |-> 0, weapons |-> 0,
     val |-> o.val, err |-> ""]
Panic == [tag |-> "Panic", keys |-> 0, weapons |-> 0, val |-> 0, err |-> ""]

----------------------------------------------------------------------------
(* Currencies: the saturating operators and their checked variants. *)

add_wrapping_weapons(a, b) ==
    Cur(saturating_add(a.keys, b.keys), Wrap(a.weapons + b.weapons))
add(a, b) ==
    Cur(saturating_add(a.keys, b.keys), saturating_add(a.weapons, b.weapons))

sub(a, b) ==
    Cur(saturating_sub(a.keys, b.keys), saturating_sub(a.weapons, b.weapons))

mul(currencies, n) ==
    Cur(saturating_mul(currencies.keys, n), saturating_mul(currencies.weapons, n))

\* keys is evaluated first; either saturating_div aborts on n = 0.
div(currencies, n) ==
    IF saturating_div_panics(currencies.keys, n) THEN Panic
    ELSE IF saturating_div_panics(currencies.weapons, n) THEN Panic
    ELSE Value(Cur(saturating_div(currencies.keys, n),
                   saturating_div(currencies.weapons, n)))

add_assign(s, o) ==
    Cur(saturating_add(s.keys, o.keys), saturating_add(s.weapons, o.weapons))

sub_assign(s, o) ==
    Cur(saturating_sub(s.keys, o.keys), saturating_sub(s.weapons, o.weapons))

mul_assign(s, n) ==
    Cur(saturating_mul(s.keys, n), saturating_mul(s.weapons, n))

\* The abort happens in the first saturating_div, before any field is stored.
div_assign_panics(s, n) ==
    saturating_div_panics(s.keys, n) \/ saturating_div_panics(s.weapons, n)
div_assign(s, n) ==
    Cur(saturating_div(s.keys, n), saturating_div(s.weapons, n))

checked_mul_keys_only(c, rhs) ==
    LET keys == checked_mul_int(c.keys, rhs)
    IN  IF ~keys.some THEN None
        ELSE Some(Cur(keys.val, saturating_mul(c.weapons, rhs)))
checked_mul(c, rhs) ==
    LET keys == checked_mul_int(c.keys, rhs)
        weapons == checked_mul_int(c.weapons, rhs)
    IN  IF ~keys.some THEN None
        ELSE IF ~weapons.some THEN None
        ELSE Some(Cur(keys.val, weapons.val))

checked_div(c, rhs) ==
    LET keys == checked_div_int(c.keys, rhs)
        weapons == checked_div_int(c.weapons, rhs)
    IN  IF ~keys.some THEN None
        ELSE IF ~weapons.some THEN None
        ELSE Some(Cur(keys.val, weapons.val))

checked_add(c, o) ==
    LET keys == checked_add_int(c.keys, o.keys)
        weapons == checked_add_int(c.weapons, o.weapons)
    IN  IF ~keys.some THEN None
        ELSE IF ~weapons.some THEN None
        ELSE Some(Cur(keys.val, weapons.val))

checked_sub(c, o) ==
    LET keys == checked_sub_int(c.keys, o.keys)
        weapons == checked_sub_int(c.weapons, o.weapons)
    IN  IF ~keys.some THEN None
        ELSE IF ~weapons.some THEN None
        ELSE Some(Cur(keys.val, weapons.val))

----------------------------------------------------------------------------
(* USDCurrencies: one field, the same operators. *)

usd_add(a, b) == saturating_add(a, b)
usd_sub(a, b) == saturating_sub(a, b)
usd_mul(a, n) == saturating_mul(a, n)
usd_div(a, n) ==
    IF saturating_div_panics(a, n) THEN Panic ELSE IntValue(saturating_div(a, n))

usd_add_assign(s, o) == saturating_add(s, o)
usd_sub_assign(s, o) == saturating_sub(s, o)
usd_mul_assign(s, n) == saturating_mul(s, n)
usd_div_assign_panics(s, n) == saturating_div_panics(s, n)
usd_div_assign(s, n) == saturating_div(s, n)

usd_checked_mul(a, rhs) == IntOption(checked_mul_int(a, rhs))
usd_checked_div(a, rhs) == IntOption(checked_div_int(a, rhs))
usd_checked_add(a, o) == IntOption(checked_add_int(a, o))
usd_checked_sub(a, o) == IntOption(checked_sub_int(a, o))

----------------------------------------------------------------------------
(* Operands. *)

\* The values around both ends of the range, around zero, and the two whose
\* double is the first to leave the range.
ArithVals == {CurMin, -Half, -1, 0, 1, Half, CurMax - 1, CurMax}

\* Integer operands of *, / and the checked variants.
NumVals == {CurMin, -2, -1, 0, 1, 2, CurMax}

ArithCurrencies == {Cur(k, w) : k \in ArithVals, w \in ArithVals}

Receivers == [cur |-> self, usd |-> usd]

Fresh ==
    /\ op = "init"
    /\ recv = [cur |-> Zero, usd |-> 0]
    /\ num = 0
    /\ rounding = "None"
    /\ total = 0
    /\ res = NoResult
    /\ out = <<>>

\* No string, no collection and no structured operand take part in the
\* operation.
NoArg == <<>>
NoSequences == text = <<>> /\ list = <<>> /\ arg = NoArg

\* The operation `name` was applied to integer operand n with outcome r;
\* the receivers are remembered as they were.
Applied(name, n, r) ==
    /\ op = "init"
    /\ op' = name
    /\ recv' = Receivers
    /\ num' = n
    /\ res' = r
    /\ UNCHANGED <<text, list, arg, out>>

----------------------------------------------------------------------------
(* Arithmetic on Currencies. *)

Add ==
    /\ Applied("add", 0, Value(add(self, other)))
    /\ UNCHANGED <<self, other, usd, usdOther, rounding, total>>

Sub ==
    /\ Applied("sub", 0, Value(sub(self, other)))
    /\ UNCHANGED <<self, other, usd, usdOther, rounding, total>>

Mul ==
    \E n \in NumVals :
        /\ Applied("mul", n, Value(mul(self, n)))
        /\ UNCHANGED <<self, other, usd, usdOther, rounding, total>>

Div ==
    \E n \in NumVals :
        /\ Applied("div", n, div(self, n))
        /\ UNCHANGED <<self, other, usd, usdOther, rounding, total>>

AddAssign ==
    /\ Applied("add_assign", 0, Unit)
    /\ self' = add_assign(self, other)
    /\ UNCHANGED <<other, usd, usdOther, rounding, total>>

SubAssign ==
    /\ Applied("sub_assign", 0, Unit)
    /\ self' = sub_assign(self, other)
    /\ UNCHANGED <<other, usd, usdOther, rounding, total>>

MulAssign ==
    \E n \in NumVals :
        /\ Applied("mul_assign", n, Unit)
        /\ self' = mul_assign(self, n)
        /\ UNCHANGED <<other, usd, usdOther, rounding, total>>

DivAssign ==
    \E n \in NumVals :
        /\ Applied("div_assign", n, IF div_assign_panics(self, n) THEN Panic ELSE Unit)
        /\ self' = IF div_assign_panics(self, n) THEN self ELSE div_assign(self, n)
        /\ UNCHANGED <<other, usd, usdOther, rounding, total>>

CheckedAdd ==
    /\ Applied("checked_add", 0, checked_add(self, other))
    /\ UNCHANGED <<self, other, usd, usdOther, rounding, total>>

CheckedSub ==
    /\ Applied("checked_sub", 0, checked_sub(self, other))
    /\ UNCHANGED <<self, other, usd, usdOther, rounding, total>>

CheckedMul ==
    \E n \in NumVals :
        /\ Applied("checked_mul", n, checked_mul(self, n))
        /\ UNCHANGED <<self, other, usd, usdOther, rounding, total>>

CheckedDiv ==
    \E n \in NumVals :
        /\ Applied("checked_div", n, checked_div(self, n))
        /\ UNCHANGED <<self, other, usd, usdOther, rounding, total>>

(* Arithmetic on USDCurrencies. *)

UsdAdd ==
    /\ Applied("usd_add", 0, IntValue(usd_add(usd, usdOther)))
    /\ UNCHANGED <<self, other, usd, usdOther, rounding, total>>

UsdSub ==
    /\ Applied("usd_sub", 0, IntValue(usd_sub(usd, usdOther)))
    /\ UNCHANGED <<self, other, usd, usdOther, rounding, total>>

UsdMul ==
    \E n \in NumVals :
        /\ Applied("usd_mul", n, IntValue(usd_mul(usd, n)))
        /\ UNCHANGED <<self, other, usd, usdOther, rounding, total>>

UsdDiv ==
    \E n \in NumVals :
        /\ Applied("usd_div", n, usd_div(usd, n))
        /\ UNCHANGED <<self, other, usd, usdOther, rounding, total>>

UsdAddAssign ==
    /\ Applied("usd_add_assign", 0, Unit)
    /\ usd' = usd_add_assign(usd, usdOther)
    /\ UNCHANGED <<self, other, usdOther, rounding, total>>

UsdSubAssign ==
    /\ Applied("usd_sub_assign", 0, Unit)
    /\ usd' = usd_sub_assign(usd, usdOther)
    /\ UNCHANGED <<self, other, usdOther, rounding, total>>

UsdMulAssign ==
    \E n \in NumVals :
        /\ Applied("usd_mul_assign", n, Unit)
        /\ usd' = usd_mul_assign(usd, n)
        /\ UNCHANGED <<self, other, usdOther, rounding, total>>

UsdDivAssign ==
    \E n \in NumVals :
        /\ Applied("usd_div_assign", n,
                   IF usd_div_assign_panics(usd, n) THEN Panic ELSE Unit)
        /\ usd' = IF usd_div_assign_panics(usd, n) THEN usd ELSE usd_div_assign(usd, n)
        /\ UNCHANGED <<self, other, usdOther, rounding, total>>

UsdCheckedAdd ==
    /\ Applied("usd_checked_add", 0, usd_checked_add(usd, usdOther))
    /\ UNCHANGED <<self, other, usd, usdOther, rounding, total>>

UsdCheckedSub ==
    /\ Applied("usd_checked_sub", 0, usd_checked_sub(usd, usdOther))
    /\ UNCHANGED <<self, other, usd, usdOther, rounding, total>>

UsdCheckedMul ==
    \E n \in NumVals :
        /\ Applied("usd_checked_mul", n, usd_checked_mul(usd, n))
        /\ UNCHANGED <<self, other, usd, usdOther, rounding, total>>

UsdCheckedDiv ==
    \E n \in NumVals :
        /\ Applied("usd_checked_div", n, usd_checked_div(usd, n))
        /\ UNCHANGED <<self, other, usd, usdOther, rounding, total>>

\* Either two Currencies or two USDCurrencies are the operands.
InitArith ==
    /\ Fresh
    /\ NoSequences
    /\ \/ /\ self \in ArithCurrencies
          /\ other \in ArithCurrencies
          /\ usd = 0
          /\ usdOther = 0
       \/ /\ self = Zero
          /\ other = Zero
          /\ usd \in ArithVals
          /\ usdOther \in ArithVals

NextArith ==
    \/ Add \/ Sub \/ Mul \/ Div
    \/ AddAssign \/ SubAssign \/ MulAssign \/ DivAssign
    \/ CheckedAdd \/ CheckedSub \/ CheckedMul \/ CheckedDiv
    \/ UsdAdd \/ UsdSub \/ UsdMul \/ UsdDiv
    \/ UsdAddAssign \/ UsdSubAssign \/ UsdMulAssign \/ UsdDivAssign
    \/ UsdCheckedAdd \/ UsdCheckedSub \/ UsdCheckedMul \/ UsdCheckedDiv

SpecArith == InitArith /\ [][NextArith]_vars

----------------------------------------------------------------------------
(* Properties of the arithmetic. *)

\* The mathematical integer x limited to the Currency range.
Clamp(x) == IF x < CurMin THEN CurMin ELSE IF x > CurMax THEN CurMax ELSE x

\* q is the integer quotient a / n truncated toward zero (n # 0).
IsTruncatedQuotient(q, a, n) ==
    LET r == a - q * n
    IN  /\ Abs(r) < Abs(n)
        /\ r = 0 \/ ((r < 0) = (a < 0))

\* C1: a + b, a - b and a * n return, in each field independently of the
\* other, the exact result of that field clamped to [CurMin, CurMax], never
\* a wrapped value; USDCurrencies does the same for its usd field.
C1_OperatorsSaturatePerField ==
    /\ op = "add" =>
           res = Value(Cur(Clamp(recv.cur.keys + other.keys),
                           Clamp(recv.cur.weapons + other.weapons)))
    /\ op = "sub" =>
           res = Value(Cur(Clamp(recv.cur.keys - other.keys),
                           Clamp(recv.cur.weapons - other.weapons)))
    /\ op = "mul" =>
           res = Value(Cur(Clamp(recv.cur.keys * num),
                           Clamp(recv.cur.weapons * num)))
    /\ op = "usd_add" => res = IntValue(Clamp(recv.usd + usdOther))
    /\ op = "usd_sub" => res = IntValue(Clamp(recv.usd - usdOther))
    /\ op = "usd_mul" => res = IntValue(Clamp(recv.usd * num))

\* C1 witness: a + b whose keys sum leaves the range and is clamped to MAX
\* while the weapons sum stays in range and is exact.
C1_Witness ==
    /\ op = "add"
    /\ recv.cur.keys + other.keys > CurMax
    /\ recv.cur.weapons # 0
    /\ ~overflows(recv.cur.weapons + other.weapons)
    /\ res.keys = CurMax
    /\ res.weapons = recv.cur.weapons + other.weapons

\* The exact quotient a / n, truncated toward zero (n # 0); it is one of the
\* two integers of magnitude |a| div |n|.
ExactQuotient(a, n) ==
    LET m == Abs(a) \div Abs(n)
    IN  CHOOSE q \in {m, -m} : IsTruncatedQuotient(q, a, n)

\* The exact per-field results of the checked operation that was applied.
ExactKeys ==
    CASE op = "checked_add" -> recv.cur.keys + other.keys
      [] op = "checked_sub" -> recv.cur.keys - other.keys
      [] op = "checked_mul" -> recv.cur.keys * num
      [] op = "checked_div" /\ num # 0 -> ExactQuotient(recv.cur.keys, num)
      [] OTHER -> 0

ExactWeapons ==
    CASE op = "checked_add" -> recv.cur.weapons + other.weapons
      [] op = "checked_sub" -> recv.cur.weapons - other.weapons
      [] op = "checked_mul" -> recv.cur.weapons * num
      [] op = "checked_div" /\ num # 0 -> ExactQuotient(recv.cur.weapons, num)
      [] OTHER -> 0

\* The saturating operator that corresponds to the checked operation.
SaturatingCounterpart ==
    CASE op = "checked_add" -> Value(add(recv.cur, other))
      [] op = "checked_sub" -> Value(sub(recv.cur, other))
      [] op = "checked_mul" -> Value(mul(recv.cur, num))
      [] op = "checked_div" -> div(recv.cur, num)
      [] OTHER -> NoResult

\* C2: checked_add, checked_sub, checked_mul and checked_div return None
\* exactly when the exact result of the keys field or of the weapons field
\* is outside the range or (checked_div) n = 0; otherwise Some(v) with both
\* fields exact and v equal to the saturating operator's result.  In the
\* None case of checked_add, + returns the clamped value.  The receiver is
\* unchanged.
C2_CheckedIffRepresentable ==
    /\ op \in {"checked_add", "checked_sub", "checked_mul", "checked_div"} =>
           /\ res.tag \in {"Some", "None"}
           /\ res.tag = "None" <=>
                  \/ overflows(ExactKeys)
                  \/ overflows(ExactWeapons)
                  \/ (op = "checked_div" /\ num = 0)
           /\ res.tag = "Some" =>
                  /\ res.keys = ExactKeys
                  /\ res.weapons = ExactWeapons
                  /\ SaturatingCounterpart = Value(Cur(res.keys, res.weapons))
           /\ self = recv.cur
    /\ (op = "checked_add" /\ res.tag = "None") =>
           add(recv.cur, other) = Cur(Clamp(recv.cur.keys + other.keys),
                                      Clamp(recv.cur.weapons + other.weapons))

\* C2 witness: checked_mul is None because the weapons product alone leaves
\* the range, the keys product being representable and nonzero.
C2_Witness ==
    /\ op = "checked_mul"
    /\ res.tag = "None"
    /\ recv.cur.keys * num # 0
    /\ ~overflows(recv.cur.keys * num)
    /\ overflows(recv.cur.weapons * num)

IntegerOperators ==
    {"add", "sub", "mul", "div",
     "add_assign", "sub_assign", "mul_assign", "div_assign",
     "usd_add", "usd_sub", "usd_mul", "usd_div",
     "usd_add_assign", "usd_sub_assign", "usd_mul_assign", "usd_div_assign"}

\* C8: every arithmetic operator of Currencies and USDCurrencies with an
\* integer operand (+, -, *, /, +=, -=, *=, /=) returns a value for all
\* operands in range; none aborts, including division by 0 and MIN / -1.
C8_IntegerOperatorsNeverAbort ==
    op \in IntegerOperators => res.tag # "Panic"

----------------------------------------------------------------------------
(* Conversion between (keys, weapons) and a weapons total. *)

to_metal_single_clamp(metal, keys, key_price) ==
    LET exact == keys * key_price + metal
    IN  IF exact < CurMin THEN CurMin ELSE IF exact > CurMax THEN CurMax ELSE exact
to_metal(metal, keys, key_price) ==
    saturating_add(saturating_mul(keys, key_price), metal)

checked_to_metal_saturating_mul(metal, keys, key_price) ==
    checked_add_int(metal, saturating_mul(keys, key_price))
checked_to_metal(metal, keys, key_price) ==
    LET product == checked_mul_int(keys, key_price)
    IN  IF ~product.some THEN NoneInt ELSE checked_add_int(metal, product.val)

\* The keys left out of the total.
to_weapons_without_keys(c, key_price) == c.weapons
to_weapons(c, key_price) == to_metal(c.weapons, c.keys, key_price)

checked_to_weapons(c, key_price) == checked_to_metal(c.weapons, c.keys, key_price)

\* Floored division and modulus in place of the truncating ones.
from_weapons_floored(weapons, key_price_weapons) ==
    IF key_price_weapons <= 0 THEN Panic
    ELSE Value(Cur(weapons \div key_price_weapons, weapons % key_price_weapons))
\* The keys field is evaluated first, then the weapons field; each aborts
\* on the operands its operator does not accept.
from_weapons(weapons, key_price_weapons) ==
    IF saturating_div_panics(weapons, key_price_weapons) THEN Panic
    ELSE IF rem_panics(weapons, key_price_weapons) THEN Panic
    ELSE Value(Cur(saturating_div(weapons, key_price_weapons),
                   truncated_rem(weapons, key_price_weapons)))

\* Only the weapons field is split; the keys found are added to self.keys.
neaten_keeps_keys(c, key_price_weapons) ==
    LET split == from_weapons(c.weapons, key_price_weapons)
    IN  IF split.tag = "Panic" THEN Panic
        ELSE Value(Cur(saturating_add(c.keys, split.keys), split.weapons))
neaten(c, key_price_weapons) ==
    from_weapons(to_weapons(c, key_price_weapons), key_price_weapons)

\* Largest magnitude of the small keys and weapons operands.
MaxSmall == 12

KeyPrices ==
    {CurMin, -refined(50), -10, -1, 0, 1, 2, 10, refined(50), CurMax}

ConvKeys ==
    (-3 .. 3) \cup {CurMin, -Half, -10, 10, Half, CurMax - 100, CurMax}

ConvWeapons ==
    (-MaxSmall .. MaxSmall)
        \cup {CurMin, CurMin + 1, CurMax - 1, CurMax}
        \cup {refined(110), -refined(110), -refined(60), refined(10), refined(20)}

ConvCurrencies == {Cur(k, w) : k \in ConvKeys, w \in ConvWeapons}

ToWeapons ==
    \E key_price \in KeyPrices :
        /\ Applied("to_weapons", key_price, IntValue(to_weapons(self, key_price)))
        /\ UNCHANGED <<self, other, usd, usdOther, rounding, total>>

CheckedToWeapons ==
    \E key_price \in KeyPrices :
        /\ Applied("checked_to_weapons", key_price,
                   IntOption(checked_to_weapons(self, key_price)))
        /\ UNCHANGED <<self, other, usd, usdOther, rounding, total>>

FromWeapons ==
    \E key_price \in KeyPrices :
        /\ Applied("from_weapons", key_price, from_weapons(total, key_price))
        /\ UNCHANGED <<self, other, usd, usdOther, rounding, total>>

Neaten ==
    \E key_price \in KeyPrices :
        /\ Applied("neaten", key_price, neaten(self, key_price))
        /\ UNCHANGED <<self, other, usd, usdOther, rounding, total>>

\* Either a Currencies value or a weapons total is the operand.
InitConvert ==
    /\ op = "init"
    /\ recv = [cur |-> Zero, usd |-> 0]
    /\ num = 0
    /\ rounding = "None"
    /\ res = NoResult
    /\ out = <<>>
    /\ NoSequences
    /\ other = Zero
    /\ usd = 0
    /\ usdOther = 0
    /\ \/ /\ self \in ConvCurrencies
          /\ total = 0
       \/ /\ self = Zero
          /\ total \in Currency

NextConvert == ToWeapons \/ CheckedToWeapons \/ FromWeapons \/ Neaten

SpecConvert == InitConvert /\ [][NextConvert]_vars

----------------------------------------------------------------------------
(* Properties of the conversions. *)

C4_CheckedToWeapons ==
    op = "checked_to_weapons" =>
        LET product == recv.cur.keys * num
            sum == product + recv.cur.weapons
        IN  /\ res.tag \in {"Some", "None"}
            /\ (overflows(product) \/ overflows(sum)) => res.tag = "None"
            /\ ~(overflows(product) \/ overflows(sum)) =>
                   /\ res = IntOption(SomeInt(sum))
                   /\ to_weapons(recv.cur, num) = sum

\* C4 witness: None because the product leaves the range, although the
\* exact total keys * key_price + weapons is representable.
C4_Witness ==
    /\ op = "checked_to_weapons"
    /\ res.tag = "None"
    /\ overflows(recv.cur.keys * num)
    /\ ~overflows(recv.cur.keys * num + recv.cur.weapons)

\* C5: for every total t and key price p > 0, from_weapons(t, p) is
\* {keys: q, weapons: r} with q = t / p truncated toward zero and r the
\* remainder with the sign of t: q * p + r = t and |r| < p; e.g.
\* from_weapons(9, 10) = {0, 9}, (10, 10) = {1, 0}, (11, 10) = {1, 1}.
C5_FromWeaponsTruncates ==
    (op = "from_weapons" /\ num > 0) =>
        /\ res.tag = "Value"
        /\ res.keys * num + res.weapons = total
        /\ Abs(res.weapons) < num
        /\ res.weapons = 0 \/ ((res.weapons < 0) = (total < 0))
        /\ Abs(res.keys) * num <= Abs(total)
        /\ (total = 9 /\ num = 10) => res = Value(Cur(0, 9))
        /\ (total = 10 /\ num = 10) => res = Value(Cur(1, 0))
        /\ (total = 11 /\ num = 10) => res = Value(Cur(1, 1))

\* C5 witness: a negative total that is no multiple of the key price, split
\* into negative keys and a negative remainder.
C5_Witness ==
    /\ op = "from_weapons"
    /\ num = 10
    /\ total = -11
    /\ res = Value(Cur(-1, -1))

\* C6: for key price p > 0 with neither keys * p nor keys * p + weapons
\* overflowing, n = c.neaten(p) has n.keys * p + n.weapons
\* = c.keys * p + c.weapons, |n.weapons| < p, and n.keys, n.weapons never
\* of opposite sign; e.g. at refined(50): {1, refined(110)} -> {3, refined(10)},
\* {1, -refined(110)} -> {-1, -refined(10)}, {2, -refined(60)} -> {0, refined(40)}.
C6_NeatenPreservesTotal ==
    (/\ op = "neaten"
     /\ num > 0
     /\ ~overflows(recv.cur.keys * num)
     /\ ~overflows(recv.cur.keys * num + recv.cur.weapons)) =>
        /\ res.tag = "Value"
        /\ res.keys * num + res.weapons = recv.cur.keys * num + recv.cur.weapons
        /\ Abs(res.weapons) < num
        /\ ~(res.keys > 0 /\ res.weapons < 0)
        /\ ~(res.keys < 0 /\ res.weapons > 0)
        /\ (recv.cur = Cur(1, refined(110)) /\ num = refined(50)) =>
               res = Value(Cur(3, refined(10)))
        /\ (recv.cur = Cur(1, -refined(110)) /\ num = refined(50)) =>
               res = Value(Cur(-1, -refined(10)))
        /\ (recv.cur = Cur(2, -refined(60)) /\ num = refined(50)) =>
               res = Value(Cur(0, refined(40)))

\* C6 witness: two keys and a metal debt larger than one key are neatened
\* into a positive metal amount and no keys.
C6_Witness ==
    /\ op = "neaten"
    /\ recv.cur = Cur(2, -refined(60))
    /\ num = refined(50)
    /\ res = Value(Cur(0, refined(40)))

\* C7: from_weapons(total, key_price) and neaten(key_price) are saturating
\* throughout: for every total, every Currencies value and every key_price
\* in the range (key_price = 0, negative key prices, and total = MIN with
\* key_price = -1 included) they return a Currencies value with both fields
\* in range and never abort.
C7_FromWeaponsAndNeatenNeverAbort ==
    op \in {"from_weapons", "neaten"} =>
        /\ res.tag = "Value"
        /\ res.keys \in Currency
        /\ res.weapons \in Currency

----------------------------------------------------------------------------
(* Rounding. *)

Roundings == {"UpScrap", "DownScrap", "Refined", "UpRefined", "DownRefined", "None"}

\* The outcomes of an unchecked +, - whose mathematical result is x: when x
\* leaves the range the build decides between an abort (overflow checks on)
\* and the wrapped value (overflow checks off).
unchecked(x) == IF overflows(x) THEN {Panic, IntValue(Wrap(x))} ELSE {IntValue(x)}

\* Floored remainders in place of the truncating ones.
round_metal_floored(metal, policy) ==
    CASE policy = "UpScrap" -> unchecked(metal + (metal % 2))
      [] policy = "DownScrap" -> unchecked(metal - (metal % 2))
      [] policy = "Refined" ->
            {IntValue((metal + ONE_REF \div 2) - ((metal + ONE_REF \div 2) % ONE_REF))}
      [] policy = "UpRefined" ->
            IF metal % ONE_REF # 0 /\ metal > 0
            THEN unchecked(metal - ((metal % ONE_REF) - ONE_REF))
            ELSE {IntValue(metal - (metal % ONE_REF))}
      [] policy = "DownRefined" ->
            IF metal % ONE_REF # 0 /\ metal < 0
            THEN unchecked(metal - ((metal % ONE_REF) + ONE_REF))
            ELSE {IntValue(metal - (metal % ONE_REF))}
      [] OTHER -> {IntValue(metal)}
\* The set of outcomes of round_metal(metal, policy).
round_metal(metal, policy) ==
    IF metal = 0 THEN {IntValue(metal)}
    ELSE CASE policy = "UpScrap" ->
                IF truncated_rem(metal, 2) # 0
                THEN unchecked(metal + 1)
                ELSE {IntValue(metal)}
           [] policy = "DownScrap" ->
                IF truncated_rem(metal, 2) # 0
                THEN unchecked(metal - 1)
                ELSE {IntValue(metal)}
           [] policy = "Refined" ->
                {IF v.tag = "Panic" THEN Panic
                 ELSE IntValue(v.val - truncated_rem(v.val, ONE_REF)) :
                    v \in unchecked(metal + truncated_div(ONE_REF, 2))}
           [] policy = "UpRefined" ->
                LET remainder == truncated_rem(metal, ONE_REF)
                IN  IF remainder # 0
                    THEN IF metal > 0
                         THEN unchecked(metal - (remainder + (-ONE_REF)))
                         ELSE unchecked(metal - remainder)
                    ELSE {IntValue(metal)}
           [] policy = "DownRefined" ->
                LET remainder == truncated_rem(metal, ONE_REF)
                IN  IF remainder # 0
                    THEN IF metal > 0
                         THEN unchecked(metal - remainder)
                         ELSE unchecked(metal - (remainder + ONE_REF))
                    ELSE {IntValue(metal)}
           [] OTHER -> {IntValue(metal)}

\* round takes self by value and returns it with the weapons field rounded.
round(c, policy) ==
    {IF m.tag = "Panic" THEN Panic ELSE Value(Cur(c.keys, m.val)) :
        m \in round_metal(c.weapons, policy)}

Round ==
    \E policy \in Roundings :
        \E outcome \in round(self, policy) :
            /\ Applied("round", 0, outcome)
            /\ rounding' = policy
            /\ UNCHANGED <<self, other, usd, usdOther, total>>

RoundKeys == {0, 1}

InitRound ==
    /\ Fresh
    /\ NoSequences
    /\ self \in {Cur(k, w) : k \in RoundKeys, w \in Currency}
    /\ other = Zero
    /\ usd = 0
    /\ usdOther = 0

NextRound == Round

SpecRound == InitRound /\ [][NextRound]_vars

----------------------------------------------------------------------------
(* Properties of rounding. *)

\* The smallest multiple of m that is >= x, and the largest that is <= x.
CeilTo(x, m) == x + ((m - (x % m)) % m)
FloorTo(x, m) == x - (x % m)

\* The multiple of ONE_REF nearest to x, the farther from zero of the two
\* when x is halfway between them.
NearestRefined(x) ==
    IF x >= 0 THEN FloorTo(x + ONE_REF \div 2, ONE_REF)
    ELSE -FloorTo(-x + ONE_REF \div 2, ONE_REF)

\* C9: for every weapons amount, positive or negative, whose result is
\* representable, round(UpRefined) is the smallest multiple of 18 >= amount,
\* round(DownRefined) the largest multiple of 18 <= amount, round(UpScrap)
\* the smallest multiple of 2 >= amount and round(DownScrap) the largest
\* multiple of 2 <= amount; an amount on the grid is returned unchanged
\* (UpRefined of -refined(23)+scrap(1) is -refined(22); DownRefined of
\* -refined(23)+scrap(8) is -refined(23)).
C9_DirectedRounding ==
    op = "round" =>
        LET amount == recv.cur.weapons
            keys == recv.cur.keys
        IN  /\ (rounding = "UpRefined" /\ ~overflows(CeilTo(amount, ONE_REF))) =>
                   res = Value(Cur(keys, CeilTo(amount, ONE_REF)))
            /\ (rounding = "DownRefined" /\ ~overflows(FloorTo(amount, ONE_REF))) =>
                   res = Value(Cur(keys, FloorTo(amount, ONE_REF)))
            /\ (rounding = "UpScrap" /\ ~overflows(CeilTo(amount, ONE_SCRAP))) =>
                   res = Value(Cur(keys, CeilTo(amount, ONE_SCRAP)))
            /\ (rounding = "DownScrap" /\ ~overflows(FloorTo(amount, ONE_SCRAP))) =>
                   res = Value(Cur(keys, FloorTo(amount, ONE_SCRAP)))
            /\ (rounding = "UpRefined" /\ amount = -refined(23) + scrap(1)) =>
                   res.weapons = -refined(22)
            /\ (rounding = "DownRefined" /\ amount = -refined(23) + scrap(8)) =>
                   res.weapons = -refined(23)
            /\ (rounding \in {"UpRefined", "DownRefined"} /\ amount % ONE_REF = 0) =>
                   res.weapons = amount
            /\ (rounding \in {"UpScrap", "DownScrap"} /\ amount % ONE_SCRAP = 0) =>
                   res.weapons = amount

\* C9 witness: a negative amount off the grid rounded up to the refined
\* above it, toward zero.
C9_Witness ==
    /\ op = "round"
    /\ rounding = "UpRefined"
    /\ recv.cur.weapons = -refined(23) + scrap(1)
    /\ res.weapons = -refined(22)

\* C10: for every weapons amount, positive or negative, round(Refined)
\* returns the multiple of 18 nearest to the amount, and at a remainder of
\* magnitude 9 the one of larger magnitude; e.g. refined(23)+scrap(3) gives
\* refined(23) and refined(23)+scrap(5) gives refined(24).
C10_RefinedRoundsToNearest ==
    (/\ op = "round"
     /\ rounding = "Refined"
     /\ ~overflows(NearestRefined(recv.cur.weapons))) =>
        res = Value(Cur(recv.cur.keys, NearestRefined(recv.cur.weapons)))

\* C11: round(Refined) is idempotent: an amount that is a multiple of 18,
\* positive, zero or negative, is returned unchanged, and rounding the
\* result of round(Refined) once more returns that result.  Amounts whose
\* intermediate sum metal + 9 leaves the range are left out.
C11_RefinedRoundIsIdempotent ==
    (/\ op = "round"
     /\ rounding = "Refined"
     /\ res.tag = "Value") =>
        /\ recv.cur.weapons % ONE_REF = 0 => res = Value(recv.cur)
        /\ ~overflows(res.weapons + ONE_REF \div 2) =>
               round(Cur(res.keys, res.weapons), "Refined") = {res}

----------------------------------------------------------------------------
(* Comparison and ordering of Currencies. *)

Bool(b) ==
    [tag |-> IF b THEN "true" ELSE "false", keys |-> 0, weapons |-> 0, val |-> 0,
     err |-> ""]
Ordering(o) == [tag |-> o, keys |-> 0, weapons |-> 0, val |-> 0, err |-> ""]

\* One field being enough in place of both.
can_afford_either_field(c, o) == c.keys >= o.keys \/ c.weapons >= o.weapons
can_afford(c, o) == c.keys >= o.keys /\ c.weapons >= o.weapons

\* The derived PartialEq: field by field.
eq(c, o) == c.keys = o.keys /\ c.weapons = o.weapons

\* The weapons compared before the keys.
cmp_weapons_first(c, o) ==
    IF c.weapons > o.weapons THEN "Greater"
    ELSE IF c.weapons < o.weapons THEN "Less"
    ELSE IF c.keys > o.keys THEN "Greater"
    ELSE IF c.keys < o.keys THEN "Less"
    ELSE "Equal"
cmp(c, o) ==
    IF c.keys > o.keys THEN "Greater"
    ELSE IF c.keys < o.keys THEN "Less"
    ELSE IF c.weapons > o.weapons THEN "Greater"
    ELSE IF c.weapons < o.weapons THEN "Less"
    ELSE "Equal"

partial_cmp(c, o) == cmp(c, o)

\* x put into the ascending sequence s behind every element that is not
\* greater than it.
RECURSIVE insert(_, _)
insert(s, x) ==
    IF s = <<>> THEN <<x>>
    ELSE IF cmp(s[Len(s)], x) = "Greater"
         THEN Append(insert(SubSeq(s, 1, Len(s) - 1), x), s[Len(s)])
         ELSE Append(s, x)

\* Vec::sort: the stable ascending sort by cmp.
RECURSIVE sort(_)
sort(s) ==
    IF s = <<>> THEN <<>>
    ELSE insert(sort(SubSeq(s, 1, Len(s) - 1)), s[Len(s)])

\* The operation `name` left the outcome r and the sequence s.
Produced(name, r, s) ==
    /\ op = "init"
    /\ op' = name
    /\ recv' = Receivers
    /\ num' = 0
    /\ res' = r
    /\ out' = s
    /\ UNCHANGED <<text, list, arg>>

CanAfford ==
    /\ Applied("can_afford", 0, Bool(can_afford(self, other)))
    /\ UNCHANGED <<self, other, usd, usdOther, rounding, total>>

Cmp ==
    /\ Applied("cmp", 0, Ordering(partial_cmp(self, other)))
    /\ UNCHANGED <<self, other, usd, usdOther, rounding, total>>

\* list is the vector before the call, out the vector after it.
Sort ==
    /\ Produced("sort", Unit, sort(list))
    /\ UNCHANGED <<self, other, usd, usdOther, rounding, total>>

CompareVals == {CurMin, -1, 0, 1, 2, CurMax}
CompareCurrencies == {Cur(k, w) : k \in CompareVals, w \in CompareVals}

\* The elements of the sorted collections: those of the test `sorts` and
\* their neighbours.
SortCurrencies == {Cur(k, w) : k \in {0, 2, 10}, w \in {2, 4}}
MaxList == 3
SortLists == UNION {[1 .. n -> SortCurrencies] : n \in 0 .. MaxList}

\* Either two Currencies are compared or a collection is sorted.
InitCompare ==
    /\ Fresh
    /\ text = <<>>
    /\ arg = NoArg
    /\ usd = 0
    /\ usdOther = 0
    /\ \/ /\ self \in CompareCurrencies
          /\ other \in CompareCurrencies
          /\ list = <<>>
       \/ /\ self = Zero
          /\ other = Zero
          /\ list \in SortLists

NextCompare == CanAfford \/ Cmp \/ Sort

SpecCompare == InitCompare /\ [][NextCompare]_vars

----------------------------------------------------------------------------
(* Properties of comparison. *)

\* C12: a.can_afford(b) is true exactly when a.keys >= b.keys and
\* a.weapons >= b.weapons, so every value can afford itself; the flattened
\* totals do not decide it (C12_Witness is a pair whose totals are in order
\* at some key price while can_afford is false).
C12_CanAffordIsComponentwise ==
    op = "can_afford" =>
        /\ res = Bool(recv.cur.keys >= other.keys /\ recv.cur.weapons >= other.weapons)
        /\ other = recv.cur => res = Bool(TRUE)

\* C12 witness: at some key price a is worth at least as much as b and yet
\* cannot afford it.
C12_Witness ==
    /\ op = "can_afford"
    /\ res = Bool(FALSE)
    /\ \E p \in KeyPrices :
           /\ p > 0
           /\ ~overflows(recv.cur.keys * p + recv.cur.weapons)
           /\ ~overflows(other.keys * p + other.weapons)
           /\ to_weapons(recv.cur, p) > to_weapons(other, p)

\* a is before b in the lexicographic order on (keys, weapons).
LexLess(a, b) == a.keys < b.keys \/ (a.keys = b.keys /\ a.weapons < b.weapons)

\* The number of positions of s that hold x.
Count(s, x) == Cardinality({i \in DOMAIN s : s[i] = x})

\* C13: cmp is the lexicographic order on (keys, weapons): Less, Greater or
\* Equal as a is before, after or the same as b; it is a total order
\* (antisymmetric, transitive, any two values comparable) and Equal exactly
\* when a == b; sorting a collection arranges it in ascending order, so that
\* the value with the most keys is last.
C13_OrderIsLexicographic ==
    /\ op = "cmp" =>
           LET a == recv.cur
               b == other
           IN  /\ res.tag \in {"Less", "Equal", "Greater"}
               /\ res.tag = "Less" <=> LexLess(a, b)
               /\ res.tag = "Greater" <=> LexLess(b, a)
               /\ res.tag = "Equal" <=> eq(a, b)
               /\ res.tag = "Less" <=> cmp(b, a) = "Greater"
               /\ \A c \in CompareCurrencies :
                      (res.tag # "Greater" /\ cmp(b, c) # "Greater") =>
                          cmp(a, c) # "Greater"
    /\ op = "sort" =>
           /\ Len(out) = Len(list)
           /\ \A x \in SortCurrencies : Count(out, x) = Count(list, x)
           /\ \A i \in 1 .. Len(out) - 1 : ~LexLess(out[i + 1], out[i])
           /\ \A i \in 1 .. Len(out) : out[i].keys <= out[Len(out)].keys

\* C13 witness: the collection of the test `sorts` after the sort.
C13_Witness ==
    /\ op = "sort"
    /\ list = <<Cur(2, 4), Cur(0, 2), Cur(10, 4)>>
    /\ out = <<Cur(0, 2), Cur(2, 4), Cur(10, 4)>>

----------------------------------------------------------------------------
(* f32.  A float is zero or m * 2^e with 2^(MantBits-1) <= |m| < 2^MantBits, *)
(* and every operation returns the float nearest to its exact result, ties  *)
(* to the even mantissa.  f32 keeps 24 significant bits; as with Bits the   *)
(* model keeps fewer, so that the amounts at which the float arithmetic     *)
(* stops being exact lie inside the searched range: MantBits < Bits - 1,    *)
(* as 24 < 63, so that Currency::MAX is not a float.  The arithmetic below  *)
(* is that of finite floats; subnormals and the sign of zero are out of     *)
(* reach of the amounts here.                                               *)

MantBits == 11

Float(m, e) == [m |-> m, e |-> e]
FloatZero == Float(0, 0)

Sign(x) == IF x < 0 THEN -1 ELSE 1

\* The number of binary digits of n >= 0.
RECURSIVE BitLen(_)
BitLen(n) == IF n = 0 THEN 0 ELSE 1 + BitLen(n \div 2)

\* The float nearest to (p / q) * 2^e0, for integers p >= 0 and q > 0.
nearest(p, q, e0) ==
    IF p = 0 THEN FloatZero
    ELSE LET a == BitLen(p) - BitLen(q)
             \* floor(log2(p / q))
             lg == IF a >= 0
                   THEN (IF p >= q * 2 ^ a THEN a ELSE a - 1)
                   ELSE (IF p * 2 ^ (-a) >= q THEN a ELSE a - 1)
             E == lg - (MantBits - 1)
             N == IF E <= 0 THEN p * 2 ^ (-E) ELSE p
             D == IF E <= 0 THEN q ELSE q * 2 ^ E
             down == N \div D
             r == N % D
             m == IF 2 * r > D \/ (2 * r = D /\ down % 2 = 1) THEN down + 1 ELSE down
         IN  IF m = 2 ^ MantBits THEN Float(2 ^ (MantBits - 1), E + 1 + e0)
             ELSE Float(m, E + e0)

signed(sign, f) == IF sign < 0 THEN Float(-f.m, f.e) ELSE f

\* `x as f32` of an integer.
as_f32(x) == signed(Sign(x), nearest(Abs(x), 1, 0))

\* a / b and a * b of two floats (b # 0).
fdiv(a, b) == signed(Sign(a.m) * Sign(b.m), nearest(Abs(a.m), Abs(b.m), a.e - b.e))
fmul(a, b) == signed(Sign(a.m) * Sign(b.m), nearest(Abs(a.m) * Abs(b.m), 1, a.e + b.e))

\* The integer a float without fractional part stands for, and the float
\* limited to the Currency range by `as Currency`.
integer_of(f) == IF f.e >= 0 THEN f.m * 2 ^ f.e ELSE truncated_div(f.m, 2 ^ (-f.e))
as_currency(f) ==
    LET x == integer_of(f)
    IN  IF x > CurMax THEN CurMax ELSE IF x < CurMin THEN CurMin ELSE x

\* f32::trunc: the fractional part dropped; f32::round: the nearest integer,
\* halfway cases away from zero.
ftrunc(f) == as_f32(integer_of(f))
fround(f) ==
    IF f.e >= 0 THEN f
    ELSE as_f32(Sign(f.m) * ((Abs(f.m) + 2 ^ (-f.e - 1)) \div 2 ^ (-f.e)))

ONE_REF_FLOAT == as_f32(ONE_REF)
Hundred == as_f32(100)

get_metal_float_from_weapons(value) ==
    fdiv(ftrunc(fmul(fdiv(as_f32(value), ONE_REF_FLOAT), Hundred)), Hundred)

get_weapons_from_metal_float(value) == as_currency(fround(fmul(value, ONE_REF_FLOAT)))

----------------------------------------------------------------------------
(* Text.  A string is the sequence of its characters. *)

KEY_SYMBOL == <<"k", "e", "y">>
KEYS_SYMBOL == <<"k", "e", "y", "s">>
METAL_SYMBOL == <<"r", "e", "f">>

DigitChars == <<"0", "1", "2", "3", "4", "5", "6", "7", "8", "9">>
is_digit(c) == \E i \in DOMAIN DigitChars : DigitChars[i] = c
digit_value(c) == (CHOOSE i \in DOMAIN DigitChars : DigitChars[i] = c) - 1

\* The decimal digits of n >= 0, and Display of an integer.
RECURSIVE digits_of(_)
digits_of(n) ==
    IF n < 10 THEN <<DigitChars[n + 1]>>
    ELSE Append(digits_of(n \div 10), DigitChars[(n % 10) + 1])

to_string(x) == IF x < 0 THEN <<"-">> \o digits_of(-x) ELSE digits_of(x)

\* The number a sequence of digits stands for.
RECURSIVE value_of(_)
value_of(digits) ==
    IF digits = <<>> THEN 0
    ELSE 10 * value_of(SubSeq(digits, 1, Len(digits) - 1)) + digit_value(digits[Len(digits)])

all_digits(s) == \A i \in DOMAIN s : is_digit(s[i])
has_sign(s) == s # <<>> /\ s[1] \in {"+", "-"}
unsigned(s) == IF has_sign(s) THEN Tail(s) ELSE s
sign_of(s) == IF s # <<>> /\ s[1] = "-" THEN -1 ELSE 1

\* Zero refused like a malformed number.
parse_int_nonzero(s) ==
    IF unsigned(s) = <<>> \/ ~all_digits(unsigned(s)) THEN NoneInt
    ELSE LET x == sign_of(s) * value_of(unsigned(s))
         IN  IF overflows(x) \/ x = 0 THEN NoneInt ELSE SomeInt(x)
\* str::parse::<Currency>: an optional sign and at least one digit, nothing
\* else, and a value of the Currency range.
parse_int(s) ==
    IF unsigned(s) = <<>> \/ ~all_digits(unsigned(s)) THEN NoneInt
    ELSE LET x == sign_of(s) * value_of(unsigned(s))
         IN  IF overflows(x) THEN NoneInt ELSE SomeInt(x)

\* k / 10^d written with d digits behind the point.
RECURSIVE zero_padded(_, _)
zero_padded(s, n) == IF Len(s) >= n THEN s ELSE zero_padded(<<"0">> \o s, n)

decimal_string(k, d) ==
    LET digits == zero_padded(digits_of(k), d + 1)
    IN  IF d = 0 THEN digits
        ELSE SubSeq(digits, 1, Len(digits) - d) \o <<".">>
                 \o SubSeq(digits, Len(digits) - d + 1, Len(digits))

\* The decimal with the fewest digits behind the point, d or more, that
\* parses back to the float f > 0; of two such the one nearer to f.
RECURSIVE shortest_decimal(_, _)
shortest_decimal(f, d) ==
    LET below == IF f.e >= 0 THEN f.m * 2 ^ f.e * 10 ^ d
                 ELSE (f.m * 10 ^ d) \div 2 ^ (-f.e)
        exact == f.e >= 0 \/ (f.m * 10 ^ d) % 2 ^ (-f.e) = 0
        upper_is_nearer == f.e < 0 /\ 2 * (f.m * 10 ^ d) > (2 * below + 1) * 2 ^ (-f.e)
        candidates == {k \in {below, below + 1} : nearest(k, 10 ^ d, 0) = f}
    IN  IF candidates = {} THEN shortest_decimal(f, d + 1)
        ELSE IF exact \/ candidates = {below} THEN [k |-> below, d |-> d]
        ELSE IF candidates = {below + 1} \/ upper_is_nearer THEN [k |-> below + 1, d |-> d]
        ELSE [k |-> below, d |-> d]

\* Display of an f32: the shortest decimal that parses back to it.
display_f32(f) ==
    IF f.m = 0 THEN <<"0">>
    ELSE LET shortest == shortest_decimal(Float(Abs(f.m), f.e), 0)
         IN  (IF f.m < 0 THEN <<"-">> ELSE <<>>) \o decimal_string(shortest.k, shortest.d)

NoneFloat == [some |-> FALSE, val |-> FloatZero]
SomeFloat(f) == [some |-> TRUE, val |-> f]

\* str::parse::<f32> of a plain decimal: an optional sign, digits with at
\* most one point among them and at least one digit; the float nearest to
\* the decimal.  Exponents, "inf" and "nan" are not among the inputs.
parse_f32(s) ==
    LET body == unsigned(s)
        points == {i \in DOMAIN body : body[i] = "."}
        point == IF points = {} THEN Len(body) + 1 ELSE CHOOSE i \in points : TRUE
        digits == SubSeq(body, 1, point - 1) \o SubSeq(body, point + 1, Len(body))
        fraction == IF points = {} THEN 0 ELSE Len(body) - point
    IN  IF Cardinality(points) > 1 \/ digits = <<>> \/ ~all_digits(digits) THEN NoneFloat
        ELSE SomeFloat(signed(sign_of(s), nearest(value_of(digits), 10 ^ fraction, 0)))

\* str::split: the pieces between the occurrences of sep, empty ones too.
RECURSIVE split(_, _)
split(s, sep) ==
    LET found == {i \in DOMAIN s : s[i] = sep}
    IN  IF found = {} THEN <<s>>
        ELSE LET first == CHOOSE i \in found : \A j \in found : i <= j
             IN  <<SubSeq(s, 1, first - 1)>> \o split(SubSeq(s, first + 1, Len(s)), sep)

\* str::trim: the whitespace at both ends removed.
RECURSIVE trim(_)
trim(s) ==
    IF s = <<>> THEN s
    ELSE IF s[1] = " " THEN trim(Tail(s))
    ELSE IF s[Len(s)] = " " THEN trim(SubSeq(s, 1, Len(s) - 1))
    ELSE s

UpperCase == <<"E", "F", "K", "R", "S", "Y">>
LowerCase == <<"e", "f", "k", "r", "s", "y">>
to_ascii_lowercase(c) ==
    IF \E i \in DOMAIN UpperCase : UpperCase[i] = c
    THEN LowerCase[CHOOSE i \in DOMAIN UpperCase : UpperCase[i] = c]
    ELSE c
eq_ignore_ascii_case(a, b) ==
    /\ Len(a) = Len(b)
    /\ \A i \in DOMAIN a : to_ascii_lowercase(a[i]) = to_ascii_lowercase(b[i])

NoneStr == [some |-> FALSE, val |-> <<>>]
SomeStr(s) == [some |-> TRUE, val |-> s]

\* The Result of parse_currencies: the two count strings or the error.
Parsed(keys, metal) == [err |-> "", keys |-> keys, metal |-> metal]
Failed(kind) == [err |-> kind, keys |-> NoneStr, metal |-> NoneStr]

\* The loop of parse_currencies over the elements that are left, and what
\* follows it.
RECURSIVE parse_elements(_, _, _)
parse_elements(elements, keys, metal) ==
    IF elements = <<>>
    THEN IF ~keys.some /\ ~metal.some THEN Failed("NoCurrenciesDetected")
         ELSE Parsed(keys, metal)
    ELSE LET element_split == split(trim(Head(elements)), " ")
         IN  IF Len(element_split) < 1 THEN Failed("MissingCount")
             ELSE IF Len(element_split) < 2 THEN Failed("MissingCurrencyName")
             ELSE IF Len(element_split) > 2 THEN Failed("UnexpectedToken")
             ELSE LET count_str == element_split[1]
                      currency_name == element_split[2]
                  IN  IF eq_ignore_ascii_case(currency_name, METAL_SYMBOL)
                      THEN parse_elements(Tail(elements), keys, SomeStr(count_str))
                      ELSE IF \/ eq_ignore_ascii_case(currency_name, KEYS_SYMBOL)
                              \/ eq_ignore_ascii_case(currency_name, KEY_SYMBOL)
                      THEN parse_elements(Tail(elements), SomeStr(count_str), metal)
                      ELSE Failed("InvalidCurrencyName")

parse_currencies(string) == parse_elements(split(string, ","), NoneStr, NoneStr)

Ok(c) == [tag |-> "Ok", keys |-> c.keys, weapons |-> c.weapons, val |-> 0, err |-> ""]
Err(kind) == [tag |-> "Err", keys |-> 0, weapons |-> 0, val |-> 0, err |-> kind]

parse_currency_from_string(string) ==
    LET parsed == parse_currencies(string)
        keys == IF parsed.keys.some THEN parse_int(parsed.keys.val) ELSE SomeInt(0)
        metal == IF parsed.metal.some THEN parse_f32(parsed.metal.val)
                 ELSE SomeFloat(FloatZero)
    IN  IF parsed.err # "" THEN Err(parsed.err)
        ELSE IF ~keys.some THEN Err("ParseInt")
        ELSE IF ~metal.some THEN Err("ParseFloat")
        ELSE Ok(Cur(keys.val,
                    IF parsed.metal.some THEN get_weapons_from_metal_float(metal.val)
                    ELSE 0))

from_str(string) == parse_currency_from_string(string)

\* The singular for every amount of magnitude one.
pluralize_by_magnitude(amount, singular, plural) ==
    IF Abs(amount) = 1 THEN singular ELSE plural
pluralize(amount, singular, plural) == IF amount = 1 THEN singular ELSE plural

is_empty(c) == c.keys = 0 /\ c.weapons = 0

\* Display for Currencies.
fmt(c) ==
    IF (c.keys # 0 /\ c.weapons # 0) \/ is_empty(c)
    THEN to_string(c.keys) \o <<" ">> \o pluralize(c.keys, KEY_SYMBOL, KEYS_SYMBOL)
             \o <<",", " ">> \o display_f32(get_metal_float_from_weapons(c.weapons))
             \o <<" ">> \o METAL_SYMBOL
    ELSE IF c.keys # 0
    THEN to_string(c.keys) \o <<" ">> \o pluralize(c.keys, KEY_SYMBOL, KEYS_SYMBOL)
    ELSE display_f32(get_metal_float_from_weapons(c.weapons)) \o <<" ">> \o METAL_SYMBOL

----------------------------------------------------------------------------
(* Formatting and parsing. *)

Fmt ==
    /\ Produced("fmt", Unit, fmt(self))
    /\ UNCHANGED <<self, other, usd, usdOther, rounding, total>>

FromStr ==
    /\ Applied("from_str", 0, from_str(text))
    /\ UNCHANGED <<self, other, usd, usdOther, rounding, total>>

\* from_str of the string that fmt has produced.
FromStrOfFmt ==
    /\ op = "fmt"
    /\ op' = "fmt_from_str"
    /\ res' = from_str(out)
    /\ UNCHANGED <<self, other, usd, usdOther, recv, num, rounding, total, text, list, arg, out>>

\* out holds the float that was returned.
GetMetalFloatFromWeapons ==
    /\ Produced("get_metal_float_from_weapons", Unit,
                <<get_metal_float_from_weapons(total)>>)
    /\ UNCHANGED <<self, other, usd, usdOther, rounding, total>>

\* get_weapons_from_metal_float of the float that was returned.
GetWeaponsFromMetalFloat ==
    /\ op = "get_metal_float_from_weapons"
    /\ op' = "get_weapons_from_metal_float"
    /\ res' = IntValue(get_weapons_from_metal_float(out[1]))
    /\ UNCHANGED <<self, other, usd, usdOther, recv, num, rounding, total, text, list, arg, out>>

\* s[1], s[2], ... with sep between them.
RECURSIVE Join(_, _)
Join(s, sep) ==
    IF s = <<>> THEN <<>>
    ELSE IF Len(s) = 1 THEN s[1]
    ELSE s[1] \o sep \o Join(Tail(s), sep)

\* The words of the parsed strings: counts, unit names in both cases, an
\* unknown word and the empty word (which makes a doubled, leading or
\* trailing space).
Tokens ==
    {<<>>, <<"0">>, <<"1">>, <<"2">>, <<"2", "3", ".", "4", "4">>,
     KEY_SYMBOL, KEYS_SYMBOL, METAL_SYMBOL, <<"R", "E", "F">>, <<"w", "h", "a", "t">>}
MaxTokens == 3

\* One element of up to MaxTokens words, two elements of two words each
\* with a comma between them, and three well-formed elements.
Elements == {Join(ts, <<" ">>) : ts \in UNION {[1 .. n -> Tokens] : n \in 0 .. MaxTokens}}
Clauses == {Join(ts, <<" ">>) : ts \in [1 .. 2 -> Tokens]}
ShortClauses ==
    {<<"1", " ">> \o KEY_SYMBOL, <<"2", " ">> \o KEYS_SYMBOL, <<"2", " ">> \o METAL_SYMBOL}
Texts ==
    Elements \cup {a \o sep \o b : a \in Clauses, b \in Clauses,
                                   sep \in {<<",">>, <<",", " ">>}}
             \cup {a \o <<",", " ">> \o b \o <<",", " ">> \o c :
                      a \in ShortClauses, b \in ShortClauses, c \in ShortClauses}

TextKeys == {CurMin, -2, -1, 0, 1, 2, CurMax}
TextCurrencies == {Cur(k, w) : k \in TextKeys, w \in Currency}

\* A Currencies to format, a string to parse or a weapons amount to convert.
InitText ==
    /\ op = "init"
    /\ recv = [cur |-> Zero, usd |-> 0]
    /\ num = 0
    /\ rounding = "None"
    /\ res = NoResult
    /\ out = <<>>
    /\ list = <<>>
    /\ arg = NoArg
    /\ other = Zero
    /\ usd = 0
    /\ usdOther = 0
    /\ \/ /\ self \in TextCurrencies
          /\ text = <<>>
          /\ total = 0
       \/ /\ self = Zero
          /\ text \in Texts
          /\ total = 0
       \/ /\ self = Zero
          /\ text = <<>>
          /\ total \in Currency

NextText ==
    \/ Fmt \/ FromStr \/ FromStrOfFmt
    \/ GetMetalFloatFromWeapons \/ GetWeaponsFromMetalFloat

SpecText == InitText /\ [][NextText]_vars

----------------------------------------------------------------------------
(* Properties of formatting and parsing. *)

\* C14: for every non-empty Currencies value c, of either sign, parsing the
\* string that formatting c produced succeeds and yields c; e.g.
\* {keys 2, weapons 422} is written "2 keys, 23.44 ref" and read back.
C14_TextRoundTrip ==
    /\ (op = "fmt_from_str" /\ ~is_empty(recv.cur)) => res = Ok(recv.cur)
    /\ (op \in {"fmt", "fmt_from_str"} /\ recv.cur = Cur(2, 422)) =>
           out = <<"2", " ", "k", "e", "y", "s", ",", " ",
                   "2", "3", ".", "4", "4", " ", "r", "e", "f">>

\* The float nearest to weapons / 18 truncated toward zero to hundredths.
TruncatedHundredths(w) ==
    signed(Sign(w), nearest(Abs(truncated_div(100 * w, ONE_REF)), 100, 0))

\* C15: for every weapons amount w, get_metal_float_from_weapons(w) is
\* w / 18 truncated toward zero to two decimal places, and
\* get_weapons_from_metal_float of that float is w again; e.g. 6 gives 0.33
\* and 0.33 gives 6.
C15_MetalFloatRoundTrip ==
    /\ op \in {"get_metal_float_from_weapons", "get_weapons_from_metal_float"} =>
           out = <<TruncatedHundredths(total)>>
    /\ op = "get_weapons_from_metal_float" => res = IntValue(total)

\* "<keys> key" for one key, "<keys> keys" for every other amount.
KeysText(k) == to_string(k) \o <<" ">> \o (IF k = 1 THEN KEY_SYMBOL ELSE KEYS_SYMBOL)

\* s is written with digits, a sign and a point only, and has a digit.
IsNumberText(s) ==
    /\ \A i \in DOMAIN s : is_digit(s[i]) \/ s[i] \in {"-", "."}
    /\ \E i \in DOMAIN s : is_digit(s[i])

\* s is prefix, then the text of a number, then suffix.
HasShape(s, prefix, suffix) ==
    /\ Len(s) > Len(prefix) + Len(suffix)
    /\ SubSeq(s, 1, Len(prefix)) = prefix
    /\ SubSeq(s, Len(s) - Len(suffix) + 1, Len(s)) = suffix
    /\ IsNumberText(SubSeq(s, Len(prefix) + 1, Len(s) - Len(suffix)))

\* C16: the shape of the formatted text follows from which fields are zero:
\* both non-zero "<keys> <key-unit>, <metal> ref", only keys non-zero
\* "<keys> <key-unit>", only weapons non-zero "<metal> ref", both zero
\* "0 keys, 0 ref"; the key unit is "key" exactly when keys = 1 and "keys"
\* for every other amount, 0 and -1 included.
C16_FormatShape ==
    op = "fmt" =>
        LET c == recv.cur
        IN  /\ (c.keys # 0 /\ c.weapons # 0) =>
                   HasShape(out, KeysText(c.keys) \o <<",", " ">>, <<" ">> \o METAL_SYMBOL)
            /\ (c.keys # 0 /\ c.weapons = 0) => out = KeysText(c.keys)
            /\ (c.keys = 0 /\ c.weapons # 0) => HasShape(out, <<>>, <<" ">> \o METAL_SYMBOL)
            /\ (c.keys = 0 /\ c.weapons = 0) =>
                   out = <<"0", " ", "k", "e", "y", "s", ",", " ", "0", " ", "r", "e", "f">>

\* C16 witness: minus one key takes the plural, in front of the metal.
C16_Witness ==
    /\ op = "fmt"
    /\ recv.cur = Cur(-1, 422)
    /\ out = <<"-", "1", " ", "k", "e", "y", "s", ",", " ",
               "2", "3", ".", "4", "4", " ", "r", "e", "f">>

\* The word in front of the closing "ref", and the number of digits behind
\* the point of a number text.
MetalText(s) == LET words == split(s, " ") IN words[Len(words) - 1]
FractionDigits(s) ==
    LET points == {i \in DOMAIN s : s[i] = "."}
    IN  IF points = {} THEN 0 ELSE Len(s) - (CHOOSE i \in points : TRUE)

\* C17: for every weapons amount the metal is printed as a bare integer
\* when the amount is a multiple of 18 and with exactly two digits behind
\* the point otherwise (refined(23) prints "23", refined(23) + scrap(4)
\* prints "23.44").
C17_MetalDigits ==
    (op = "fmt" /\ recv.cur.weapons # 0) =>
        /\ IF recv.cur.weapons % ONE_REF = 0
           THEN FractionDigits(MetalText(out)) = 0
           ELSE FractionDigits(MetalText(out)) = 2
        /\ recv.cur.weapons = refined(23) => MetalText(out) = <<"2", "3">>
        /\ recv.cur.weapons = refined(23) + scrap(4) =>
               MetalText(out) = <<"2", "3", ".", "4", "4">>

\* C18: a string without any clause, the empty string or spaces only, is
\* refused with the error NoCurrenciesDetected, which is none of the other
\* kinds.
C18_NoClauseIsNoCurrenciesDetected ==
    (op = "from_str" /\ trim(text) = <<>>) => res = Err("NoCurrenciesDetected")

IsUnitName(word) ==
    \/ eq_ignore_ascii_case(word, KEY_SYMBOL)
    \/ eq_ignore_ascii_case(word, KEYS_SYMBOL)
    \/ eq_ignore_ascii_case(word, METAL_SYMBOL)

\* C19: of a string of one clause, a unit name alone ("keys") is refused
\* with MissingCount, a count alone ("2") with MissingCurrencyName, a count
\* with a word that is no unit name with InvalidCurrencyName, and a count
\* and a unit name followed by a third word with UnexpectedToken.
C19_ClauseErrors ==
    (op = "from_str" /\ \A i \in DOMAIN text : text[i] # ",") =>
        LET words == split(trim(text), " ")
        IN  /\ (Len(words) = 1 /\ IsUnitName(words[1])) => res = Err("MissingCount")
            /\ (Len(words) = 1 /\ parse_f32(words[1]).some) =>
                   res = Err("MissingCurrencyName")
            /\ (Len(words) = 2 /\ parse_f32(words[1]).some /\ ~IsUnitName(words[2])) =>
                   res = Err("InvalidCurrencyName")
            /\ (Len(words) = 3 /\ parse_f32(words[1]).some /\ IsUnitName(words[2])) =>
                   res = Err("UnexpectedToken")

\* C20: a well-formed string is never refused because a value is zero:
\* "<n> key(s)" gives n keys and no weapons, "<m> ref" gives m refined and
\* no keys, and both clauses give both, for n and m from zero on, so that
\* "0 keys", "0 ref" and "0 keys, 0 ref" all give {keys 0, weapons 0}.
C20_ZeroParses ==
    op = "from_str" =>
        \A n \in 0 .. 2, m \in 0 .. 2 :
            \A unit \in {KEY_SYMBOL, KEYS_SYMBOL} :
                LET keys == to_string(n) \o <<" ">> \o unit
                    metal == to_string(m) \o <<" ">> \o METAL_SYMBOL
                IN  /\ text = keys => res = Ok(Cur(n, 0))
                    /\ text = metal => res = Ok(Cur(0, refined(m)))
                    /\ text \in {keys \o <<",", " ">> \o metal, keys \o <<",">> \o metal} =>
                           res = Ok(Cur(n, refined(m)))

\* C20 witness: both clauses are there and both are zero.
C20_Witness ==
    /\ op = "from_str"
    /\ text = <<"0", " ", "k", "e", "y", "s", ",", " ", "0", " ", "r", "e", "f">>
    /\ res = Ok(Zero)

----------------------------------------------------------------------------
(* Structured serialization.  An object is what the serializer is handed   *)
(* and the deserializer reads: per field, nothing, an integer or a float.  *)

Absent == [kind |-> "absent", int |-> 0, float |-> FloatZero]
IntField(n) == [kind |-> "int", int |-> n, float |-> FloatZero]
FloatField(f) == [kind |-> "float", int |-> 0, float |-> f]
Object(keys, metal) == [keys |-> keys, metal |-> metal]

\* f32::fract() != 0.0
has_fract(f) == f.e < 0 /\ f.m % 2 ^ (-f.e) # 0

\* Serialize for Currencies.
serialize(c) ==
    Object(IF c.keys = 0 THEN Absent ELSE IntField(c.keys),
           IF c.weapons = 0 THEN Absent
           ELSE LET float == get_metal_float_from_weapons(c.weapons)
                IN  IF ~has_fract(float) THEN IntField(as_currency(float))
                    ELSE FloatField(float))

\* Currency::deserialize of a field: an integer of the Currency range.
deserialize_currency(field) ==
    IF field.kind = "int" /\ ~overflows(field.int) THEN SomeInt(field.int) ELSE NoneInt

\* f32::deserialize of a field: a float, or an integer converted to one.
deserialize_f32(field) == IF field.kind = "int" THEN as_f32(field.int) ELSE field.float

metal_deserializer(field) ==
    LET metal_refined_float == deserialize_f32(field)
    IN  as_currency(fround(fmul(metal_refined_float, ONE_REF_FLOAT)))

\* The derived deserializer: a missing field takes the default.
derived_deserialize(object) ==
    LET keys == IF object.keys.kind = "absent" THEN SomeInt(0)
                ELSE deserialize_currency(object.keys)
        weapons == IF object.metal.kind = "absent" THEN 0
                   ELSE metal_deserializer(object.metal)
    IN  IF ~keys.some THEN Err("invalid type") ELSE Ok(Cur(keys.val, weapons))

\* The object without values let through.
deserialize_accepting_empty(object) == derived_deserialize(object)
\* Deserialize for Currencies.
deserialize(object) ==
    LET currencies == derived_deserialize(object)
    IN  IF currencies.tag = "Err" THEN currencies
        ELSE IF currencies.keys = 0 /\ currencies.weapons = 0
        THEN Err("Does not contain values for keys or metal")
        ELSE currencies

Serialize ==
    /\ Produced("serialize", Unit, <<serialize(self)>>)
    /\ UNCHANGED <<self, other, usd, usdOther, rounding, total>>

Deserialize ==
    /\ Applied("deserialize", 0, deserialize(arg))
    /\ UNCHANGED <<self, other, usd, usdOther, rounding, total>>

\* deserialize of the object that serialize has produced.
DeserializeOfSerialize ==
    /\ op = "serialize"
    /\ op' = "serialize_deserialize"
    /\ res' = deserialize(out[1])
    /\ UNCHANGED <<self, other, usd, usdOther, recv, num, rounding, total, text, list, arg, out>>

\* The metal of the read objects: every amount of hundredths up to
\* MaxHundredths, of either sign, and floats at and beyond the range end.
MaxHundredths == 2400
MetalFloats ==
    {signed(sign, nearest(k, 100, 0)) : sign \in {-1, 1}, k \in 0 .. MaxHundredths}
        \cup {as_f32(CurMax \div 2), as_f32(CurMax), as_f32(CurMin)}
KeysFields ==
    {Absent, FloatField(nearest(3, 2, 0))} \cup {IntField(n) : n \in {CurMin, -1, 0, 1, 5, CurMax}}
MetalFields ==
    {Absent} \cup {IntField(n) : n \in {-23, -1, 0, 1, 23, CurMax}}
        \cup {FloatField(f) : f \in MetalFloats}
Objects == {Object(keys, metal) : keys \in KeysFields, metal \in MetalFields}

\* A Currencies to write or an object to read.
InitSerde ==
    /\ Fresh
    /\ text = <<>>
    /\ list = <<>>
    /\ other = Zero
    /\ usd = 0
    /\ usdOther = 0
    /\ \/ /\ self \in TextCurrencies
          /\ arg = Object(Absent, Absent)
       \/ /\ self = Zero
          /\ arg \in Objects

NextSerde == Serialize \/ Deserialize \/ DeserializeOfSerialize

SpecSerde == InitSerde /\ [][NextSerde]_vars

\* n is the integer nearest to the float f, the one away from zero of two
\* equally near.
IsNearestInteger(n, f) ==
    IF f.e >= 0 THEN n = f.m * 2 ^ f.e
    ELSE LET d == 2 ^ (-f.e)
             twice == 2 * Abs(n * d - f.m)
         IN  /\ twice <= d
             /\ twice = d => Abs(n * d) > Abs(f.m)

FieldKeys(object) == IF object.keys.kind = "absent" THEN 0 ELSE object.keys.int
FieldMetal(object) ==
    IF object.metal.kind = "int" THEN as_f32(object.metal.int) ELSE object.metal.float
\* The metal times 18 (the float product) stays inside the Currency range.
MetalInRange(object) ==
    LET product == fmul(FieldMetal(object), ONE_REF_FLOAT)
    IN  product.e < 0 \/ ~overflows(integer_of(product))

C22_SerdeRoundTrip ==
    (op = "serialize_deserialize" /\ ~is_empty(recv.cur)) => res = Ok(recv.cur)

----------------------------------------------------------------------------
(* Conversion from FloatCurrencies.  The floats that are not numbers of the *)
(* form m * 2^e are written with m = 0 and e > 0.                           *)

INFINITY == Float(0, 1)
NEG_INFINITY == Float(0, 2)
NAN == Float(0, 3)

is_nan(f) == f = NAN
is_infinite(f) == f \in {INFINITY, NEG_INFINITY}
is_finite(f) == ~is_nan(f) /\ ~is_infinite(f)

FloatCurrencies(keys, metal) == [keys |-> keys, metal |-> metal]

\* value.fract() != 0.0: the fractional part of an infinity or of NaN is
\* NaN, which differs from 0.0.
fract_is_not_zero(value) == ~is_finite(value) \/ has_fract(value)

\* a < b of two finite floats.
magnitude_less(a, b) ==
    IF b.m = 0 THEN FALSE
    ELSE IF a.m = 0 THEN TRUE
    ELSE a.e < b.e \/ (a.e = b.e /\ Abs(a.m) < Abs(b.m))
less(a, b) ==
    IF a.m < 0 /\ b.m < 0 THEN magnitude_less(b, a)
    ELSE IF a.m < 0 THEN TRUE
    ELSE IF b.m < 0 THEN FALSE
    ELSE magnitude_less(a, b)

strict_f32_to_currency(value) ==
    IF is_nan(value) \/ is_infinite(value) THEN NoneInt
    ELSE IF has_fract(value) THEN NoneInt
    ELSE IF less(value, as_f32(CurMin)) \/ less(as_f32(CurMax), value) THEN NoneInt
    ELSE SomeInt(as_currency(ftrunc(value)))

\* (value * ONE_REF_FLOAT).round(): an infinity and NaN stay what they are.
metal_times_one_ref_rounded(value) ==
    IF ~is_finite(value) THEN value ELSE fround(fmul(value, ONE_REF_FLOAT))

checked_get_weapons_from_metal_float(value) ==
    strict_f32_to_currency(metal_times_one_ref_rounded(value))

\* TryFrom<FloatCurrencies> for Currencies.
try_from(currencies) ==
    IF fract_is_not_zero(currencies.keys) THEN Err("Fractional")
    ELSE LET keys == strict_f32_to_currency(currencies.keys)
             weapons == checked_get_weapons_from_metal_float(currencies.metal)
         IN  IF ~keys.some THEN Err("OutOfBounds")
             ELSE IF ~weapons.some THEN Err("OutOfBounds")
             ELSE Ok(Cur(keys.val, weapons.val))

TryFrom ==
    /\ Applied("try_from", 0, try_from(arg))
    /\ UNCHANGED <<self, other, usd, usdOther, rounding, total>>

\* The float twice as large.
doubled(f) == Float(f.m, f.e + 1)

\* Keys around zero and around both ends of the range, with a fractional
\* part, and the floats that are no numbers; metal of every amount of
\* hundredths and around the amount whose product reaches the range end.
KeysFloats ==
    {as_f32(n) : n \in {CurMin, CurMin + 1, -1, 0, 1, 10, CurMax \div 2, CurMax - 1, CurMax}}
        \cup {nearest(21, 2, 0), doubled(as_f32(CurMax)), doubled(as_f32(CurMin)),
              NAN, INFINITY, NEG_INFINITY}
TryFromMetalFloats ==
    {signed(sign, nearest(k, 100, 0)) : sign \in {-1, 1}, k \in 0 .. MaxHundredths}
        \cup {signed(sign, nearest(2 * (CurMax \div ONE_REF) + k, 2, 0)) :
                 sign \in {-1, 1}, k \in -2 .. 3}
        \cup {NAN, INFINITY, NEG_INFINITY}

InitTryFrom ==
    /\ Fresh
    /\ text = <<>>
    /\ list = <<>>
    /\ self = Zero
    /\ other = Zero
    /\ usd = 0
    /\ usdOther = 0
    /\ arg \in {FloatCurrencies(keys, metal) : keys \in KeysFloats, metal \in TryFromMetalFloats}

NextTryFrom == TryFrom

SpecTryFrom == InitTryFrom /\ [][NextTryFrom]_vars

\* The float is an integer of the Currency range.
IsCurrencyValue(f) ==
    /\ is_finite(f)
    /\ ~has_fract(f)
    /\ ~overflows(integer_of(f))

\* C23: the conversion fails whenever keys has a fractional part, is NaN or
\* infinite or lies outside the Currency range, or the metal times 18,
\* rounded, lies outside the Currency range; otherwise it succeeds with
\* keys equal to the float's keys and weapons equal to the rounded product.
C23_TryFromFloatCurrencies ==
    op = "try_from" =>
        LET product == metal_times_one_ref_rounded(arg.metal)
        IN  IF IsCurrencyValue(arg.keys) /\ IsCurrencyValue(product)
            THEN res = Ok(Cur(integer_of(arg.keys), integer_of(product)))
            ELSE res.tag = "Err"

----------------------------------------------------------------------------
(* Display of USDCurrencies. *)

cents_to_dollars(cents) == fdiv(as_f32(cents), Hundred)
to_dollars(u) == cents_to_dollars(u)

\* format!("{:.2}", amount): the decimal with two digits behind the point
\* nearest to the float, the even one of two equally near.
fixed_two_decimals(amount) ==
    LET a == Abs(amount.m) * 100
        d == IF amount.e >= 0 THEN 1 ELSE 2 ^ (-amount.e)
        n == IF amount.e >= 0 THEN a * 2 ^ amount.e ELSE a
        down == n \div d
        r == n % d
        k == IF 2 * r > d \/ (2 * r = d /\ down % 2 = 1) THEN down + 1 ELSE down
    IN  (IF amount.m < 0 THEN <<"-">> ELSE <<>>) \o decimal_string(k, 2)

\* The loop of thousands over the characters from the i-th on; place is the
\* number of characters not yet pushed.
RECURSIVE push_from_left(_, _)
push_from_left(magnitude, i) ==
    IF i > Len(magnitude) THEN <<>>
    ELSE (IF i > 1 /\ (i - 1) % 3 = 0 THEN <<",">> ELSE <<>>)
             \o <<magnitude[i]>> \o push_from_left(magnitude, i + 1)
RECURSIVE push_places(_, _)
push_places(magnitude, i) ==
    LET place == Len(magnitude) - (i - 1)
        later_loop == i > 1
    IN  IF i > Len(magnitude) THEN <<>>
        ELSE (IF later_loop /\ place % 3 = 0 THEN <<",">> ELSE <<>>)
                 \o <<magnitude[i]>> \o push_places(magnitude, i + 1)

\* The places counted from the first digit.
thousands_from_left(string) ==
    LET points == {i \in DOMAIN string : string[i] = "."}
        index == IF points = {} THEN Len(string)
                 ELSE (CHOOSE i \in points : \A j \in points : i <= j) - 1
        int_part == SubSeq(string, 1, index)
        fract_part == SubSeq(string, index + 1, Len(string))
        negative == int_part # <<>> /\ int_part[1] = "-"
        magnitude == IF negative THEN Tail(int_part) ELSE int_part
    IN  (IF negative THEN <<"-">> ELSE <<>>) \o push_from_left(magnitude, 1) \o fract_part
thousands(string) ==
    LET points == {i \in DOMAIN string : string[i] = "."}
        index == IF points = {} THEN Len(string)
                 ELSE (CHOOSE i \in points : \A j \in points : i <= j) - 1
        int_part == SubSeq(string, 1, index)
        fract_part == SubSeq(string, index + 1, Len(string))
        negative == int_part # <<>> /\ int_part[1] = "-"
        magnitude == IF negative THEN Tail(int_part) ELSE int_part
    IN  (IF negative THEN <<"-">> ELSE <<>>) \o push_places(magnitude, 1) \o fract_part

\* Display for USDCurrencies.
usd_fmt(u) == <<"$">> \o thousands(fixed_two_decimals(to_dollars(u)))

Thousands ==
    /\ Produced("thousands", Unit, <<thousands(text)>>)
    /\ UNCHANGED <<self, other, usd, usdOther, rounding, total>>

UsdFmt ==
    /\ Produced("usd_fmt", Unit, <<usd_fmt(usd)>>)
    /\ UNCHANGED <<self, other, usd, usdOther, rounding, total>>

\* Number strings: up to MaxDigits integer digits, with or without a minus
\* and a fractional part.
MaxDigits == 7
RECURSIVE DigitStrings(_)
DigitStrings(n) ==
    IF n = 0 THEN {<<>>}
    ELSE {<<c>> \o s : c \in {"0", "7"}, s \in DigitStrings(n - 1)}
IntegerParts == UNION {DigitStrings(n) : n \in 1 .. MaxDigits} \cup {<<"1", "2", "3", "4">>}
FractionParts == {<<>>, <<".", "5">>, <<".", "5", "6">>, <<".", "0", "0", "0", "0">>}
NumberTexts ==
    {sign \o int \o fract : sign \in {<<>>, <<"-">>}, int \in IntegerParts, fract \in FractionParts}

\* A number string to separate or an amount of cents to display.
InitThousands ==
    /\ Fresh
    /\ list = <<>>
    /\ arg = NoArg
    /\ self = Zero
    /\ other = Zero
    /\ usdOther = 0
    /\ \/ /\ text \in NumberTexts
          /\ usd = 0
       \/ /\ text = <<>>
          /\ usd \in Currency

NextThousands == Thousands \/ UsdFmt

SpecThousands == InitThousands /\ [][NextThousands]_vars

\* The string without its commas.
without_commas(s) == SelectSeq(s, LAMBDA c : c # ",")
\* The last position of the integer part, and the number of integer digits
\* to the right of position j.
IntEnd(s) ==
    IF \E i \in DOMAIN s : s[i] = "." THEN (CHOOSE i \in DOMAIN s : s[i] = "." /\ \A j \in 1 .. i - 1 : s[j] # ".") - 1
    ELSE Len(s)
DigitsRight(s, j) == Cardinality({i \in j + 1 .. IntEnd(s) : s[i] # ","})

\* C24: thousands puts a comma between two integer digits exactly where the
\* number of integer digits to its right is a positive multiple of three,
\* none before the first digit, a leading minus stays in front and the
\* fractional part is untouched: without its commas the result is the
\* input; 320 cents display as "$3.20".
C24_ThousandsSeparators ==
    /\ op = "thousands" =>
          LET s == out[1]
          IN  /\ without_commas(s) = text
              /\ \A j \in DOMAIN s :
                    s[j] = "," =>
                       /\ j < IntEnd(s)
                       /\ j > 1
                       /\ s[j - 1] \notin {"-", ","}
                       /\ DigitsRight(s, j) > 0
                       /\ DigitsRight(s, j) % 3 = 0
              /\ \A j \in 1 .. IntEnd(s) - 1 :
                    (s[j] \notin {"-", ","} /\ s[j + 1] # ",") => DigitsRight(s, j) % 3 # 0
    /\ (op = "usd_fmt" /\ recv.usd = 320) => out[1] = <<"$", "3", ".", "2", "0">>

\* "1234.56" has become "1,234.56".
C24_Witness ==
    /\ op = "thousands"
    /\ text = <<"1", "2", "3", "4", ".", "5", "6">>
    /\ out[1] = <<"1", ",", "2", "3", "4", ".", "5", "6">>

----------------------------------------------------------------------------
\* The unit a clause names.
ClauseUnit(clause) ==
    LET words == split(trim(clause), " ")
    IN  IF Len(words) # 2 THEN "none"
        ELSE IF eq_ignore_ascii_case(words[2], METAL_SYMBOL) THEN "metal"
        ELSE IF \/ eq_ignore_ascii_case(words[2], KEYS_SYMBOL)
                \/ eq_ignore_ascii_case(words[2], KEY_SYMBOL) THEN "keys"
        ELSE "none"

\* C25: a string that parses has one or two comma-separated clauses, and two
\* clauses name different units: no string of three or more clauses and no
\* string of two clauses with the same unit parses successfully.
C25_OneOrTwoClauses ==
    (op = "from_str" /\ res.tag = "Ok") =>
        LET clauses == split(text, ",")
        IN  /\ Len(clauses) \in {1, 2}
            /\ Len(clauses) = 2 => ClauseUnit(clauses[1]) # ClauseUnit(clauses[2])

----------------------------------------------------------------------------
\* C26: whenever the exact value keys * key_price + weapons lies inside the
\* Currency range, to_weapons(key_price) returns exactly that value.
C26_ToWeaponsExactInRange ==
    (op = "to_weapons" /\ ~overflows(recv.cur.keys * num + recv.cur.weapons)) =>
        res.val = recv.cur.keys * num + recv.cur.weapons

----------------------------------------------------------------------------
\* C27: for every weapons amount and every policy, round computes its value
\* without overflow; the upward policies return at least the amount and the
\* downward policies at most the amount.
C27_RoundStaysInRange ==
    op = "round" =>
        /\ res.tag = "Value"
        /\ rounding \in {"UpScrap", "UpRefined"} => res.weapons >= recv.cur.weapons
        /\ rounding \in {"DownScrap", "DownRefined"} => res.weapons <= recv.cur.weapons

----------------------------------------------------------------------------
(* Accumulation: a total that starts empty and takes the elements of a     *)
(* collection one by one with +=.                                          *)

\* total += list[1]; total += list[2]; ...
RECURSIVE accumulate(_, _)
accumulate(sum, currencies) ==
    IF currencies = <<>> THEN sum
    ELSE accumulate(add_assign(sum, Head(currencies)), Tail(currencies))

\* One += of the next element; num counts the elements taken.
AccumulateNext ==
    /\ op \in {"init", "accumulate"}
    /\ num < Len(list)
    /\ op' = "accumulate"
    /\ num' = num + 1
    /\ self' = add_assign(self, list[num + 1])
    /\ UNCHANGED <<other, usd, usdOther, recv, rounding, total, text, list, arg, res, out>>

AccumulateVals == {CurMin, -1, 1, CurMax}
AccumulateCurrencies == {Cur(k, w) : k \in {0, CurMax}, w \in AccumulateVals}
AccumulateLists == UNION {[1 .. n -> AccumulateCurrencies] : n \in 0 .. MaxList}

InitAccumulate ==
    /\ Fresh
    /\ text = <<>>
    /\ arg = NoArg
    /\ self = Zero
    /\ other = Zero
    /\ usd = 0
    /\ usdOther = 0
    /\ list \in AccumulateLists

NextAccumulate == AccumulateNext

SpecAccumulate == InitAccumulate /\ [][NextAccumulate]_vars

\* The orders of a collection.
Orders(s) ==
    {[i \in DOMAIN s |-> s[p[i]]] :
        p \in {q \in [DOMAIN s -> DOMAIN s] : \A i, j \in DOMAIN s : q[i] = q[j] => i = j}}

\* C28: the total of a collection accumulated with += is the same for every
\* order of its elements, saturated intermediate sums included.
C28_AccumulationIgnoresOrder ==
    (op = "accumulate" /\ num = Len(list)) =>
        \A reordered \in Orders(list) : accumulate(Zero, reordered) = self

----------------------------------------------------------------------------
\* C29: for every Currencies and every key price p > 0, neaten returns a
\* value that neaten with the same price leaves as it is, also when the
\* total of the first call saturated at MIN or MAX.
C29_NeatenIsIdempotent ==
    (op = "neaten" /\ num > 0) =>
        /\ res.tag = "Value"
        /\ neaten(Cur(res.keys, res.weapons), num) = res

\* A neaten whose total saturated and which changed its receiver.
C29_Witness ==
    /\ op = "neaten"
    /\ num > 1
    /\ overflows(recv.cur.keys * num + recv.cur.weapons)
    /\ res.tag = "Value"
    /\ Cur(res.keys, res.weapons) # recv.cur
    /\ res.weapons # 0

----------------------------------------------------------------------------
\* C30: can_afford is a partial order inside the total order: what can
\* afford b is not less than b; two values that can afford each other are
\* equal; what can afford b can afford everything b can afford.  The total
\* order is larger: C30_Witness is a pair in order that cannot afford.
C30_CanAffordWithinOrder ==
    (op = "can_afford" /\ res = Bool(TRUE)) =>
        /\ cmp(recv.cur, other) \in {"Greater", "Equal"}
        /\ can_afford(other, recv.cur) => (eq(recv.cur, other) /\ cmp(recv.cur, other) = "Equal")
        /\ \A c \in CompareCurrencies : can_afford(other, c) => can_afford(recv.cur, c)

\* a > b under the order while a cannot afford b.
C30_Witness ==
    /\ op = "cmp"
    /\ res = Ordering("Greater")
    /\ recv.cur.keys > other.keys
    /\ recv.cur.weapons < other.weapons
    /\ ~can_afford(recv.cur, other)

====
